---- MODULE Spec2Model ----
(***************************************************************************)
(* Pipe-driven window orchestrator of src-tauri/src/main.rs.               *)
(*                                                                         *)
(* Two execution contexts are modelled:                                    *)
(*   - the background listener thread (main.rs:33-90), whose position is   *)
(*     pc and whose locals are stdout, stderr, window_id, window_url,      *)
(*     cmd_args, window and handler;                                       *)
(*   - the GUI event loop, which delivers the "mounted" event and the      *)
(*     Destroyed window event of any live window at any time.              *)
(* The window registry is the GUI framework's label -> window map that     *)
(* handle.get_window consults.                                             *)
(***************************************************************************)
EXTENDS Integers, Sequences, FiniteSets, TLC

\* ---------------------------------------------------------------- bounds
MaxLines == 2
MaxMounted == 2
MaxEmits == 2

\* ------------------------------------------------------------ value sets
Labels == {"w1"}
Urls == {"/a", "/b"}
Absent == "<absent>"
NoWindow == 0

\* Helper stdout, kept structured: kind "json" is syntactically valid JSON
\* whose config.id and url fields are id and url (Absent when missing);
\* kind "text" is anything serde_json rejects (empty or garbage output).
Json(id, url) == [kind |-> "json", id |-> id, url |-> url]
EmptyOut == [kind |-> "text", id |-> Absent, url |-> Absent]

WellFormedOuts == {Json(id, url) : id \in Labels, url \in Urls}
MalformedOuts == {EmptyOut, Json(Absent, "/a"), Json("w1", Absent)}

\* What one helper run can hand back: stdout, stderr, and whether both
\* byte strings are valid UTF-8.
HelperResults ==
       {[stdout |-> s, stderr |-> "", utf8 |-> TRUE] : s \in WellFormedOuts \cup MalformedOuts}
  \cup {[stdout |-> EmptyOut, stderr |-> "unknown command", utf8 |-> TRUE]}
  \cup {[stdout |-> EmptyOut, stderr |-> "", utf8 |-> FALSE]}

\* serde_json::from_str::<CmdArgs>: Config.id and CmdArgs.url are both
\* plain String fields, hence both required.
FromStrOk(s) == s.kind = "json" /\ s.id # Absent /\ s.url # Absent

VARIABLES
  pc,          \* position of the listener thread
  fault,       \* which expect/unwrap ended the listener thread, or "none"
  lineNo,      \* number of pipe lines consumed so far
  running,     \* helper processes in progress (by line number)
  stdout, stderr, window_id, window_url, cmd_args,   \* locals of the closure
  window,      \* instance found by the second get_window (NoWindow before)
  handler,     \* EventHandler returned by window.listen (0 before)
  windows,     \* live windows: the registry
  nextInst,    \* next window instance number; nextInst-1 creations so far
  listeners,   \* active "mounted" subscriptions
  handlers,    \* on_window_event closures attached to live windows
  mountedCnt,  \* per window instance, how often "mounted" fired
  emits,       \* "cmd-args" emit calls, in order
  gone,        \* windows whose Destroyed event has been handled
  guiFault,    \* a mounted callback panicked on the GUI context
  log,         \* helper starts and window operations, in order
  skipped,     \* numbers of the pipe lines that did not decode
  exited,      \* the application has handled an exit request
  pipeWrites   \* lines this program wrote to the control pipe

vars == <<pc, fault, lineNo, running, stdout, stderr, window_id, window_url,
          cmd_args, window, handler, windows, nextInst, listeners, handlers,
          mountedCnt, emits, gone, guiFault, log, skipped, exited,
          pipeWrites>>

locals == <<stdout, stderr, window_id, window_url, cmd_args, window, handler>>
gui == <<windows, nextInst, listeners, handlers, mountedCnt, emits, gone, guiFault>>
env == <<skipped, exited, pipeWrites>>

Insts == 1..MaxLines

Live(label) == {w \in windows : w.label = label}

Init ==
  /\ pc = "read"
  /\ fault = "none"
  /\ lineNo = 0
  /\ running = {}
  /\ stdout = EmptyOut
  /\ stderr = ""
  /\ window_id = ""
  /\ window_url = ""
  /\ cmd_args = EmptyOut
  /\ window = NoWindow
  /\ handler = 0
  /\ windows = {}
  /\ nextInst = 1
  /\ listeners = {}
  /\ handlers = {}
  /\ mountedCnt = [i \in Insts |-> 0]
  /\ emits = <<>>
  /\ gone = {}
  /\ guiFault = FALSE
  /\ log = <<>>
  /\ skipped = {}
  /\ exited = FALSE
  /\ pipeWrites = <<>>

\* The process runs until the GUI context panics or the application exits.
Alive == ~guiFault /\ ~exited

\* The closure's locals go out of scope when the closure returns or unwinds.
DropLocals ==
  /\ stdout' = EmptyOut
  /\ stderr' = ""
  /\ window_id' = ""
  /\ window_url' = ""
  /\ cmd_args' = EmptyOut
  /\ window' = NoWindow
  /\ handler' = 0

\* A failed expect/unwrap unwinds the listener thread, and only that thread.
Panic(cause) == pc' = "panicked" /\ fault' = cause /\ DropLocals

\* ------------------------------------------------- the listener thread

\* reader.lines() yields the next line and for_each starts on it.
ReadLine ==
  /\ Alive /\ UNCHANGED env /\ pc = "read" /\ lineNo < MaxLines
  /\ lineNo' = lineNo + 1
  /\ pc' = "spawn"
  /\ UNCHANGED <<fault, running, locals, gui, log>>

ReadUndecodablePanics ==
  /\ Alive /\ pc = "read" /\ lineNo < MaxLines
  /\ lineNo' = lineNo + 1
  /\ skipped' = skipped \cup {lineNo + 1}
  /\ Panic("line")
  /\ UNCHANGED <<running, gui, log, exited, pipeWrites>>

\* A line that does not decode is an Err item; filter_map drops it.
ReadUndecodable ==
  /\ Alive /\ pc = "read" /\ lineNo < MaxLines
  /\ lineNo' = lineNo + 1
  /\ skipped' = skipped \cup {lineNo + 1}
  /\ UNCHANGED <<pc, fault, running, locals, gui, log, exited, pipeWrites>>

\* The writer closed the pipe: lines() is exhausted and the thread returns.
ReadEof ==
  /\ Alive /\ UNCHANGED env /\ pc = "read"
  /\ pc' = "ended"
  /\ UNCHANGED <<fault, lineNo, running, locals, gui, log>>

\* Command::new(bin_path).args(args).output(): the child is started, or
\* the io::Error reaches .expect("Failed to execute process").
SpawnHelper ==
  /\ Alive /\ UNCHANGED env /\ pc = "spawn"
  /\ \/ /\ running' = running \cup {lineNo}
        /\ log' = Append(log, <<"helper", lineNo>>)
        /\ pc' = "helper"
        /\ UNCHANGED <<fault, locals>>
     \/ /\ Panic("spawn")
        /\ UNCHANGED <<running, log>>
  /\ UNCHANGED <<lineNo, gui>>

HelperExitNoWait ==
  /\ Alive /\ UNCHANGED env /\ pc = "helper"
  /\ \E r \in HelperResults :
       IF r.utf8
         THEN /\ stdout' = r.stdout
              /\ stderr' = r.stderr
              /\ window_id' = ""
              /\ window_url' = ""
              /\ cmd_args' = EmptyOut
              /\ pc' = "parse"
              /\ UNCHANGED <<fault, window, handler>>
         ELSE Panic("utf8")
  /\ UNCHANGED <<running, lineNo, gui, log>>

\* output() returns when the child has exited; both byte strings go
\* through String::from_utf8(..).unwrap(); the three locals start empty.
HelperExit ==
  /\ Alive /\ UNCHANGED env /\ pc = "helper"
  /\ running' = running \ {lineNo}
  /\ \E r \in HelperResults :
       IF r.utf8
         THEN /\ stdout' = r.stdout
              /\ stderr' = r.stderr
              /\ window_id' = ""
              /\ window_url' = ""
              /\ cmd_args' = EmptyOut
              /\ pc' = "parse"
              /\ UNCHANGED <<fault, window, handler>>
         ELSE Panic("utf8")
  /\ UNCHANGED <<lineNo, gui, log>>

ParseDropsPayload ==
  /\ Alive /\ UNCHANGED env /\ pc = "parse"
  /\ IF stderr # ""
       THEN /\ pc' = "lookup"
            /\ UNCHANGED <<fault, locals>>
       ELSE IF FromStrOk(stdout)
         THEN /\ window_id' = stdout.id
              /\ window_url' = stdout.url
              /\ pc' = "lookup"
              /\ UNCHANGED <<fault, stdout, stderr, cmd_args, window, handler>>
         ELSE Panic("parse")
  /\ UNCHANGED <<lineNo, running, gui, log>>

\* if stderr != "" { println } else { from_str(..).unwrap(); set locals }.
\* Both branches fall through to the window code that follows.
Parse ==
  /\ Alive /\ UNCHANGED env /\ pc = "parse"
  /\ IF stderr # ""
       THEN /\ pc' = "lookup"
            /\ UNCHANGED <<fault, locals>>
       ELSE IF FromStrOk(stdout)
         THEN /\ window_id' = stdout.id
              /\ window_url' = stdout.url
              /\ cmd_args' = stdout
              /\ pc' = "lookup"
              /\ UNCHANGED <<fault, stdout, stderr, window, handler>>
         ELSE Panic("parse")
  /\ UNCHANGED <<lineNo, running, gui, log>>

\* WindowBuilder::new(&handle, &window_id, App(window_url)).build(): the
\* framework creates and registers the window, or returns an error that
\* reaches .unwrap().
Build(label, url) ==
  \/ /\ windows' = windows \cup {[inst |-> nextInst, label |-> label,
                                  url |-> url]}
     /\ nextInst' = nextInst + 1
     /\ log' = Append(log, <<"create", lineNo>>)
     /\ pc' = "lookup2"
     /\ UNCHANGED <<fault, locals>>
  \/ /\ Panic("build")
     /\ UNCHANGED <<windows, nextInst, log>>

GetOrCreateAlways ==
  /\ Alive /\ UNCHANGED env /\ pc = "lookup"
  /\ Build(window_id, window_url)
  /\ UNCHANGED <<lineNo, running, listeners, handlers, mountedCnt,
                 emits, gone, guiFault>>

GetOrCreateRootUrl ==
  /\ Alive /\ UNCHANGED env /\ pc = "lookup"
  /\ IF Live(window_id) = {}
       THEN Build(window_id, "")
       ELSE /\ pc' = "lookup2"
            /\ UNCHANGED <<fault, locals, windows, nextInst, log>>
  /\ UNCHANGED <<lineNo, running, listeners, handlers, mountedCnt,
                 emits, gone, guiFault>>

\* let window = handle.get_window(window_id); if let None = window { build }
GetOrCreate ==
  /\ Alive /\ UNCHANGED env /\ pc = "lookup"
  /\ IF Live(window_id) = {}
       THEN Build(window_id, window_url)
       ELSE /\ pc' = "lookup2"
            /\ UNCHANGED <<fault, locals, windows, nextInst, log>>
  /\ UNCHANGED <<lineNo, running, listeners, handlers, mountedCnt,
                 emits, gone, guiFault>>

\* let window = handle.get_window(window_id).unwrap();
GetWindow ==
  /\ Alive /\ UNCHANGED env /\ pc = "lookup2"
  /\ IF Live(window_id) = {}
       THEN Panic("lookup")
       ELSE /\ \E w \in Live(window_id) : window' = w.inst
            /\ pc' = "listen"
            /\ UNCHANGED <<fault, stdout, stderr, window_id, window_url,
                           cmd_args, handler>>
  /\ UNCHANGED <<lineNo, running, gui, log>>

\* window.listen("mounted", closure): the subscription is filed under the
\* window's label; the closure owns a clone of the window and cmd_args.
Listen ==
  /\ Alive /\ UNCHANGED env /\ pc = "listen"
  /\ listeners' = listeners \cup {[id |-> lineNo, label |-> window_id,
                                   target |-> window, data |-> cmd_args]}
  /\ handler' = lineNo
  /\ log' = Append(log, <<"listen", lineNo>>)
  /\ pc' = "onevent"
  /\ UNCHANGED <<fault, lineNo, running, stdout, stderr, window_id,
                 window_url, cmd_args, window, windows, nextInst, handlers,
                 mountedCnt, emits, gone, guiFault>>

OnWindowEventOnce ==
  /\ Alive /\ UNCHANGED env /\ pc = "onevent"
  /\ handlers' = IF /\ \E w \in windows : w.inst = window
                    /\ ~\E h \in handlers : h.inst = window
                   THEN handlers \cup {[inst |-> window, unlisten |-> handler]}
                   ELSE handlers
  /\ log' = Append(log, <<"on_window_event", lineNo>>)
  /\ pc' = "read"
  /\ DropLocals
  /\ UNCHANGED <<fault, lineNo, running, windows, nextInst,
                 listeners, mountedCnt, emits, gone, guiFault>>

\* window.on_window_event(closure): the closure is attached to the window
\* instance; a window that no longer exists takes no handler.
OnWindowEvent ==
  /\ Alive /\ UNCHANGED env /\ pc = "onevent"
  /\ handlers' = IF \E w \in windows : w.inst = window
                   THEN handlers \cup {[inst |-> window, unlisten |-> handler]}
                   ELSE handlers
  /\ log' = Append(log, <<"on_window_event", lineNo>>)
  /\ pc' = "read"
  /\ DropLocals
  /\ UNCHANGED <<fault, lineNo, running, windows, nextInst,
                 listeners, mountedCnt, emits, gone, guiFault>>

\* ------------------------------------------------------ the GUI context

RECURSIVE EmitAll(_, _)
\* The emit calls of the subscriptions in ls, in registration order.
EmitAll(ls, acc) ==
  IF ls = {} THEN acc
  ELSE LET l == CHOOSE x \in ls : \A y \in ls : x.id <= y.id
       IN EmitAll(ls \ {l}, Append(acc, [to |-> l.target, data |-> l.data,
                                        id |-> l.id]))

RECURSIVE MountedTotal(_)
\* Number of "mounted" signals delivered so far, over instances 1..n.
MountedTotal(n) == IF n = 0 THEN 0 ELSE mountedCnt[n] + MountedTotal(n - 1)

\* Window w signals "mounted": every subscription filed under its label
\* runs window_.emit("cmd-args", Payload{data: cmd_args}).unwrap().  An
\* emit on a window that no longer exists may return an error.
Mounted(w) ==
  /\ Alive /\ UNCHANGED env
  /\ Len(emits) < MaxEmits
  /\ MountedTotal(MaxLines) < MaxMounted
  /\ mountedCnt' = [mountedCnt EXCEPT ![w.inst] = @ + 1]
  /\ emits' = EmitAll({l \in listeners : l.label = w.label}, emits)
  /\ \/ UNCHANGED guiFault
     \/ /\ \E l \in listeners :
             l.label = w.label /\ ~\E v \in windows : v.inst = l.target
        /\ guiFault' = TRUE
  /\ UNCHANGED <<pc, fault, lineNo, running, locals, windows, nextInst,
                 listeners, handlers, gone, log>>

DestroyedKeepsWindow(w) ==
  /\ Alive /\ UNCHANGED env
  /\ gone' = gone \cup {w}
  /\ listeners' = {l \in listeners :
                     ~\E h \in handlers : h.inst = w.inst /\ h.unlisten = l.id}
  /\ handlers' = {h \in handlers : h.inst # w.inst}
  /\ UNCHANGED <<pc, fault, lineNo, running, locals, windows, nextInst,
                 mountedCnt, emits, guiFault, log>>

\* Window w is destroyed: the framework drops it from the registry and
\* runs each closure attached to it, which unlistens its own handler.
Destroyed(w) ==
  /\ Alive /\ UNCHANGED env
  /\ windows' = windows \ {w}
  /\ gone' = gone \cup {w}
  /\ listeners' = {l \in listeners :
                     ~\E h \in handlers : h.inst = w.inst /\ h.unlisten = l.id}
  /\ handlers' = {h \in handlers : h.inst # w.inst}
  /\ UNCHANGED <<pc, fault, lineNo, running, locals, nextInst, mountedCnt,
                 emits, guiFault, log>>

\* The framework signals an exit request.  run() is given no event
\* callback, so nothing is written anywhere and the application exits,
\* taking the listener thread with it.
ExitRequested ==
  /\ Alive
  /\ exited' = TRUE
  /\ UNCHANGED <<pc, fault, lineNo, running, locals, gui, log, skipped,
                 pipeWrites>>

WindowMounted == \E w \in windows : Mounted(w)
WindowDestroyed == \E w \in windows : Destroyed(w)

Next ==
  \/ ReadLine
  \/ ReadUndecodable
  \/ ReadEof
  \/ SpawnHelper
  \/ HelperExit
  \/ Parse
  \/ GetOrCreate
  \/ GetWindow
  \/ Listen
  \/ OnWindowEvent
  \/ WindowMounted
  \/ WindowDestroyed
  \/ ExitRequested

Spec == Init /\ [][Next]_vars

\* ------------------------------------------------------------- claims

\* A step of the listener thread (the GUI context never moves pc).
ListenerStep == pc' # pc

RegistryUnchanged ==
  /\ windows' = windows
  /\ nextInst' = nextInst
  /\ listeners' = listeners
  /\ handlers' = handlers

\* C1: while the listener processes a line whose helper run returned a
\* non-empty stderr, none of its steps creates a window or attaches a
\* listener; the registry is the same before and after.
C1_NoMutationOnHelperError ==
  [][(stderr # "" /\ ListenerStep) => RegistryUnchanged]_vars

\* C2: a line that resolves to an already-live window_id makes no creation
\* call, and at every instant at most one live window carries a given
\* window_id.
C2_IdempotentCreation ==
  /\ [](\A a, b \in windows : a.label = b.label => a = b)
  /\ [][(pc = "lookup" /\ Live(window_id) # {} /\ ListenerStep)
          => (windows' = windows /\ nextInst' = nextInst)]_vars

\* A line addressed to a window that an earlier line created has passed
\* the existence check.
C2_Witness ==
  /\ pc = "lookup2" /\ stderr = ""
  /\ Live(window_id) # {}
  /\ log[Len(log)] = <<"helper", lineNo>>

\* The creation step made exactly one window, carrying the directive's id
\* and navigation target, and it is the only live window with that id.
CreatedOne ==
  \E w \in windows' :
    /\ w \notin windows
    /\ windows' = windows \cup {w}
    /\ nextInst' = nextInst + 1
    /\ w.label = stdout.id
    /\ w.url = stdout.url
    /\ {v \in windows' : v.label = stdout.id} = {w}

FreshDirective ==
  pc = "lookup" /\ stderr = "" /\ Live(window_id) = {}

C4_AtMostOnceDelivery ==
  [][\A i \in Insts :
       (mountedCnt[i] >= 1 /\ mountedCnt'[i] > mountedCnt[i])
         => emits' = emits]_vars

C6_NoSubscriptionAfterDestroyed ==
  \A l \in listeners : \A g \in gone : l.target # g.inst

\* C7: helpers are started in pipe-line order, at most one helper is in
\* progress at any time, and every window operation of a line precedes the
\* start of the next line's helper.
C7_Serial ==
  /\ [](Cardinality(running) <= 1 /\ (pc = "helper" => running = {lineNo}))
  /\ [][log' # log =>
          /\ Len(log') = Len(log) + 1
          /\ SubSeq(log', 1, Len(log)) = log
          /\ LET e == log'[Len(log')]
                 last == IF log = <<>> THEN 0 ELSE log[Len(log)][2]
             IN  IF e[1] = "helper"
                   THEN e[2] > last /\ e[2] = lineNo /\ running = {} /\ pc = "spawn"
                   ELSE e[2] = last /\ e[2] = lineNo /\ running = {}]_vars

\* A second helper is in progress after an earlier line finished its
\* window operations.
C7_Witness ==
  /\ running # {}
  /\ \E i, k \in DOMAIN log :
       i < k /\ log[i][1] = "on_window_event" /\ log[k][1] = "helper"

\* C8: malformed stdout with empty stderr is recoverable: the listener
\* leaves every window alone and goes on to the next pipe line.
C8_MalformedRecoverable ==
  [][(pc = "parse" /\ stderr = "" /\ ~FromStrOk(stdout) /\ ListenerStep)
       => (pc' = "read" /\ RegistryUnchanged)]_vars

\* C9: when the helper cannot be spawned, only that command is dropped and
\* the listener goes on to the next pipe line.
C9_SpawnFailureContinues ==
  [][(pc = "spawn" /\ ListenerStep /\ running' = running)
       => (pc' = "read" /\ RegistryUnchanged)]_vars

\* C10: when the framework refuses to create the window, the directive is
\* abandoned with the registry unchanged and the listener goes on to the
\* next pipe line.
C10_CreationFailureAbandons ==
  [][(pc = "lookup" /\ Live(window_id) = {} /\ ListenerStep
        /\ nextInst' = nextInst)
       => (pc' = "read" /\ RegistryUnchanged)]_vars

\* C11: helper output that carries config.id but no url is a valid
\* directive: the listener goes on to the window code with that id and the
\* root target.
C11_UrlOptional ==
  [][(pc = "parse" /\ stderr = "" /\ stdout.kind = "json"
        /\ stdout.id # Absent /\ stdout.url = Absent /\ ListenerStep)
       => (pc' = "lookup" /\ window_id' = stdout.id /\ window_url' = "")]_vars

\* The label of window instance i, live or destroyed.
LabelOf(i) == (CHOOSE w \in windows \cup gone : w.inst = i).label

NewEmits == {emits'[i] : i \in (Len(emits) + 1)..Len(emits')}

\* C12: the subscription of a parsed directive carries that directive's raw
\* stdout and is registered on the window named by its config.id; every
\* "cmd-args" emit passes on its subscription's payload unchanged, to that
\* subscription's window; so a parsed payload only ever goes to the window
\* whose id is its own config.id.
C12_PayloadVerbatim ==
  /\ [][(pc = "listen" /\ stderr = "" /\ ListenerStep)
          => /\ listeners' = listeners \cup
                   {[id |-> lineNo, label |-> stdout.id, target |-> window,
                     data |-> stdout]}
             /\ LabelOf(window) = stdout.id]_vars
  /\ [][\A e \in NewEmits :
          \E l \in listeners :
            l.id = e.id /\ l.data = e.data /\ l.target = e.to]_vars
  /\ [](\A i \in DOMAIN emits :
          FromStrOk(emits[i].data) => LabelOf(emits[i].to) = emits[i].data.id)

\* A parsed payload has been emitted while a window with another id is
\* live.
C12_Witness ==
  \E i \in DOMAIN emits :
    /\ FromStrOk(emits[i].data)
    /\ \E w \in windows : w.label # emits[i].data.id

\* C13: an exit request makes the program write exactly one line, quit, to
\* the control pipe.
C13_QuitWritten ==
  [][(exited' /\ ~exited) => pipeWrites' = Append(pipeWrites, "quit")]_vars

\* C14: while the pipe is open and the process is alive, the listener is
\* never ended by the outcome of a command.
C14_ListenerSurvivesCommands ==
  pc # "panicked"

ListenerNext ==
  \/ ReadLine
  \/ ReadUndecodable
  \/ ReadEof
  \/ SpawnHelper
  \/ HelperExit
  \/ Parse
  \/ GetOrCreate
  \/ GetWindow
  \/ Listen
  \/ OnWindowEvent

\* The listener thread keeps being scheduled, every helper exits, and the
\* writer closes the pipe after finitely many lines.
FairSpec == Spec /\ WF_vars(ListenerNext)

\* Every line taken from the pipe was skipped as undecodable or went
\* through all its window operations.
LinesProcessed ==
  \A k \in 1..lineNo :
    k \in skipped \/ \E j \in DOMAIN log : log[j] = <<"on_window_event", k>>

\* C15: once the pipe is closed and the helpers complete, the listener
\* works through the lines that were written and ends at end-of-stream
\* (unless the process itself stops first); once it has ended it starts no
\* helper and creates no window.
C15_EndsAfterLastLine ==
  /\ [](pc \in {"ended", "panicked"} => LinesProcessed)
  /\ <>(pc = "ended" \/ ~Alive)
  /\ [][pc = "ended" => (pc' = "ended" /\ lineNo' = lineNo /\ log' = log
                          /\ running' = running /\ nextInst' = nextInst)]_vars

HandlersOf(i) == {h \in handlers : h.inst = i}

C17_LateMountedIsNoOp ==
  /\ [][\A e \in NewEmits : \E w \in windows : w.inst = e.to]_vars
  /\ []~guiFault

\* C18: a pipe line that does not decode starts no helper and changes no
\* window, and the listener stays ready for the next line; no helper start
\* or window operation is ever recorded for such a line.
C18_UndecodableSkipped ==
  /\ [][skipped' # skipped
          => (pc' = "read" /\ fault' = "none" /\ running' = running
              /\ log' = log /\ RegistryUnchanged)]_vars
  /\ [](\A j \in DOMAIN log : log[j][2] \notin skipped)

\* A helper was started for the line that follows an undecodable one.
C18_Witness ==
  \E k \in skipped : \E j \in DOMAIN log : log[j] = <<"helper", k + 1>>

\* C19: the second get_window of a directive always finds the window.
C19_SecondLookupFinds ==
  fault # "lookup"

\* C20: when a live window signals "mounted", the emit calls made are
\* exactly one per subscription registered on that window, all addressed to
\* it.
C20_OneEmitPerDirective ==
  [][\A w \in windows :
       mountedCnt'[w.inst] > mountedCnt[w.inst]
         => /\ \A e \in NewEmits : e.to = w.inst
            /\ Len(emits') - Len(emits)
                 = Cardinality({l \in listeners : l.target = w.inst})]_vars
====
